---- MODULE Spec2Model ----
(***************************************************************************)
(* DocAgent: dependency ordering (dependency_analyzer/topo_sort.py,        *)
(* ast_parser.py), the main loop of generate_docstrings.py and the         *)
(* Orchestrator workflow (agent/orchestrator.py).                          *)
(*                                                                         *)
(* Component ids are the integers 1..n; the integer order is the           *)
(* lexicographic order of the id strings (the order sorted() uses).  A     *)
(* class id is a proper prefix of the ids of its methods, so a class is    *)
(* immediately followed by its methods in that order.                      *)
(***************************************************************************)
EXTENDS Integers, Sequences, FiniteSets, TLC

\* Bounds of the model.
MaxNodes == 3
MaxEdges == 3
MaxClasses == 1
MaxFound == 1
MaxComponents == 2
MaxFiles == 2
MaxThreads == 2
MaxQueue == 3
MaxLines == 5
MaxStatements == 2
MaxApplications == 2

\* An id that names no component of the repository (a reference that
\* resolves to a module of the repository but to no component in it).
Ext == MaxNodes + 1

VARIABLES
    phase,              \* position of main(): "repo", "parsed", "graph", "sorted", "loop", "end"
    kind,               \* component_type of every component of the repository
    initm,              \* the ids that are __init__ methods
    refs,               \* references found by the DependencyCollector, per component
    keys,               \* insertion order of the components dict
    depends_on,         \* CodeComponent.depends_on after parse_repository
    graph,              \* build_graph_from_components(components)
    cycles,             \* detect_cycles(graph), as resolve_cycles saw it
    acyclic_graph,      \* resolve_cycles(graph)
    sorted_components,  \* dependency_first_dfs(graph)
    pos,                \* index into sorted_components of the main loop
    status              \* ProgressVisualizer status of every component

\* The arguments of main() and the repository on disk
VARIABLES
    test_mode,              \* args.test_mode: "placeholder" or "none"
    overwrite_docstrings,
    file_path,              \* the file every component is defined in
    nested,                 \* the classes that are not defined at the top level of their file
    unwritable              \* the files that can be read and cannot be written

mainConfig == <<test_mode, overwrite_docstrings, file_path, nested, unwritable>>

\* The files, the components dict and the main loop
VARIABLES
    on_disk,                \* the docstring every component has in its file
    file_version,           \* history: number of times every file was written
    components,             \* the CodeComponent records main() holds
    main_docstring,         \* the local docstring of the loop body
    orchestrated,           \* history: the components orchestrator.process was called for
    raised_in,              \* history: the components orchestrator.process raised for
    written                 \* history: the components whose file was written on their behalf

mainState == <<on_disk, file_version, components, main_docstring, orchestrated,
               raised_in, written>>

topoVars == <<phase, kind, initm, refs, keys, depends_on, graph, cycles,
              acyclic_graph, sorted_components, pos, status, mainConfig, mainState>>

\* Orchestrator.process for one component
VARIABLES
    opc,                        \* where process() is: "idle", "read", "search", "write", "verify", "returned", "raised"
    reader_search_attempts,
    verifier_rejection_count,
    context,                    \* self.context
    reader_memory,              \* self.reader._memory
    writer_memory,              \* self.writer._memory
    verifier_memory,            \* self.verifier._memory
    reader_response,            \* the Reader response in hand, NoResponse once it is dead
    docstring,                  \* the local docstring of process()
    verification_response,      \* the Verifier response in hand, NoResponse once it is dead
    returned,                   \* the value process() returned
    calls,                      \* number of process() calls made on every agent
    last_writer_output,         \* history: what the latest Writer.process returned
    response_log                \* history: how many responses of each sort process() has read

\* The Orchestrator's configuration and the arguments of process()
VARIABLES
    orchestrator_test_mode,     \* self.test_mode: "None", "context_print" or "reader_searcher"
    max_input_tokens,           \* self.config['max_input_tokens']
    token_consume_focal,        \* tokens of the focal component
    searchable                  \* the results the Searcher can come back with for the component

\* The LLM clients of the agents and their rate limiters (agent/llm).  A
\* caller is an agent, or a thread, that calls generate() on its LLM client;
\* a timestamp is kept as its age, current_time - timestamp, in ticks.
VARIABLES
    provider,                   \* the provider of the LLM client every caller uses
    rate_limiter,               \* self.rate_limiter of that client: the RateLimiter instance
    lock,                       \* RateLimiter.lock: the caller that holds it, 0 when free
    request_timestamps,         \* RateLimiter.request_timestamps
    input_token_usage,          \* RateLimiter.input_token_usage
    output_token_usage,         \* RateLimiter.output_token_usage
    rl_pc,                      \* where every caller is in generate()
    input_tokens,               \* the input_tokens of the caller's request
    sleep_left,                 \* what is left of the caller's time.sleep(wait_time)
    iterations,                 \* history: iterations of "while True" in the caller's wait_if_needed
    queued_at_entry,            \* history: entries in the queue when the caller took the lock
    warned                      \* history: the per-minute capacity warning was logged for the call

llmVars == <<provider, rate_limiter, lock, request_timestamps, input_token_usage,
             output_token_usage, rl_pc, input_tokens, sleep_left, iterations,
             queued_at_entry, warned>>

\* Calls of the tools on syntax trees: the Searcher's retrieval of a class
\* (agent/searcher.py, agent/tool/internal_traverse.py) and set_node_docstring
VARIABLES
    file_lines,                 \* number of lines of the file the requested class is in
    target_class,               \* the ClassDef node of the requested class: lineno, end_lineno
                                \* and the end_lineno of its __init__ (0 when it has none)
    focal_calls,                \* the focal component's node holds a call named as the class
    class_result,               \* result['calls']['class'][requested_class]
    node_body,                  \* node.body of the node handed to set_node_docstring
    original_body,              \* history: node.body before the first call
    applied                     \* history: the docstring arguments of the calls made

toolVars == <<file_lines, target_class, focal_calls, class_result, node_body,
              original_body, applied>>

orchConfig == <<orchestrator_test_mode, max_input_tokens, token_consume_focal, searchable,
                llmVars, toolVars>>

orchVars == <<opc, reader_search_attempts, verifier_rejection_count, context,
              reader_memory, writer_memory, verifier_memory, reader_response,
              docstring, verification_response, returned, calls, last_writer_output,
              response_log, orchConfig>>

vars == <<topoVars, orchVars>>

NoResponse == [none |-> TRUE]
NoDocstring == "<none>"

Agents == {"reader", "searcher", "writer", "verifier"}

\* What Writer.process can return (extract_docstring of the LLM response).
WriterDocstrings == {"", "doc_a", "doc_b"}

\* The empty string as a context: a context is the function from the tags
\* that occur in it to the number of tokens between the tag and its end tag.
EmptyString == [t \in {} |-> 0]

\* Nothing read yet: Reader responses whose INFO_NEED is true, Verifier
\* responses that ask for a revision without, and with, more context.
NoneRead == [info_need |-> 0, revise |-> 0, revise_context |-> 0]

\* Values of the LLM clients' variables while no request is modelled.
LlmIdle ==
    /\ provider = <<>>
    /\ rate_limiter = <<>>
    /\ lock = <<>>
    /\ request_timestamps = <<>>
    /\ input_token_usage = <<>>
    /\ output_token_usage = <<>>
    /\ rl_pc = <<>>
    /\ input_tokens = <<>>
    /\ sleep_left = <<>>
    /\ iterations = <<>>
    /\ queued_at_entry = <<>>
    /\ warned = <<>>

NoClass == [lineno |-> 0, end_lineno |-> 0, init_end_lineno |-> 0]
NoResult == [text |-> "<none>", first |-> 0, last |-> 0]

\* Values of the tools' variables while no call of them is modelled.
ToolIdle ==
    /\ file_lines = 0
    /\ target_class = NoClass
    /\ focal_calls = FALSE
    /\ class_result = NoResult
    /\ node_body = <<>>
    /\ original_body = <<>>
    /\ applied = <<>>

\* Values of the Orchestrator's own variables while no Orchestrator exists.
NoOrchestrator ==
    /\ opc = "none"
    /\ reader_search_attempts = 0
    /\ verifier_rejection_count = 0
    /\ context = EmptyString
    /\ reader_memory = <<>>
    /\ writer_memory = <<>>
    /\ verifier_memory = <<>>
    /\ reader_response = NoResponse
    /\ docstring = NoDocstring
    /\ verification_response = NoResponse
    /\ returned = NoDocstring
    /\ calls = [a \in Agents |-> 0]
    /\ last_writer_output = NoDocstring
    /\ response_log = NoneRead
    /\ orchestrator_test_mode = "None"
    /\ max_input_tokens = 0
    /\ token_consume_focal = 0
    /\ searchable = {}

\* Values of the Orchestrator's variables while no Orchestrator exists.
OrchIdle == NoOrchestrator /\ LlmIdle /\ ToolIdle

----------------------------------------------------------------------------
(* Helpers on sets and sequences.                                          *)

Min(a, b) == IF a < b THEN a ELSE b

Range(s) == {s[i] : i \in DOMAIN s}

MinOf(S) == CHOOSE x \in S : \A y \in S : x <= y

RECURSIVE SortedSeq(_)
\* sorted(S) for a set of ids
SortedSeq(S) == IF S = {} THEN <<>>
                ELSE LET m == MinOf(S) IN <<m>> \o SortedSeq(S \ {m})

\* The elements of S in the order in which they occur in the sequence ord.
OrderBy(S, ord) == SelectSeq(ord, LAMBDA x : x \in S)

RECURSIVE Perms(_)
\* the sequences that list every element of S once
Perms(S) == IF S = {} THEN {<<>>}
            ELSE UNION {{<<x>> \o p : p \in Perms(S \ {x})} : x \in S}

Reverse(s) == [i \in 1..Len(s) |-> s[Len(s) + 1 - i]]

PosIn(s, x) == CHOOSE i \in DOMAIN s : s[i] = x

RECURSIVE SubsetsUpTo(_, _)
\* the subsets of S with at most k elements
SubsetsUpTo(S, k) ==
    IF k = 0 THEN {{}}
    ELSE LET smaller == SubsetsUpTo(S, k - 1)
         IN  smaller \cup {T \cup {x} : T \in smaller, x \in S}

----------------------------------------------------------------------------
(* dependency_analyzer/topo_sort.py                                        *)
(* A graph is a function from its nodes to sets of nodes.  The iteration   *)
(* order of the dict is the sequence dictOrd; the iteration order of the   *)
(* successor sets follows the sequence setOrd (the hash order).            *)

RECURSIVE strongconnect(_, _, _, _)
RECURSIVE VisitSuccessors(_, _, _, _, _)

\* the body of "for successor in graph.get(node, set())" for the successors
\* that are still to be considered
VisitSuccessors(g, setOrd, node, succs, st) ==
    IF succs = <<>> THEN st
    ELSE LET successor == Head(succs) IN
         IF successor \notin DOMAIN st.index
         THEN LET r == strongconnect(g, setOrd, successor, st)
              IN  VisitSuccessors(g, setOrd, node, Tail(succs),
                     [r EXCEPT !.lowlink[node] = Min(r.lowlink[node], r.lowlink[successor])])
         ELSE IF successor \in st.onstack
         THEN VisitSuccessors(g, setOrd, node, Tail(succs),
                     [st EXCEPT !.lowlink[node] = Min(st.lowlink[node], st.index[successor])])
         ELSE VisitSuccessors(g, setOrd, node, Tail(succs), st)

\* "if lowlink[node] == index[node]": pop the stack down to node; the popped
\* nodes, in pop order, are an SCC, kept when it has more than one node
PopScc(st, node) ==
    LET at   == PosIn(st.stack, node)
        scc  == Reverse(SubSeq(st.stack, at, Len(st.stack)))
        rest == SubSeq(st.stack, 1, at - 1)
    IN  [st EXCEPT !.stack = rest,
                   !.onstack = st.onstack \ Range(scc),
                   !.result = IF Len(scc) > 1 THEN Append(st.result, scc) ELSE st.result]

strongconnect(g, setOrd, node, st) ==
    LET entered == [st EXCEPT !.index = (node :> st.counter) @@ st.index,
                              !.lowlink = (node :> st.counter) @@ st.lowlink,
                              !.counter = st.counter + 1,
                              !.stack = Append(st.stack, node),
                              !.onstack = st.onstack \cup {node}]
        succs   == IF node \in DOMAIN g THEN g[node] ELSE {}
        after   == VisitSuccessors(g, setOrd, node, OrderBy(succs, setOrd), entered)
    IN  IF after.lowlink[node] = after.index[node] THEN PopScc(after, node) ELSE after

RECURSIVE VisitEachNode(_, _, _, _)
\* "for node in graph: if node not in index: strongconnect(node)"
VisitEachNode(g, setOrd, nodes, st) ==
    IF nodes = <<>> THEN st
    ELSE IF Head(nodes) \in DOMAIN st.index
         THEN VisitEachNode(g, setOrd, Tail(nodes), st)
         ELSE VisitEachNode(g, setOrd, Tail(nodes), strongconnect(g, setOrd, Head(nodes), st))

EmptyMap == [x \in {} |-> 0]

detect_cycles(g, dictOrd, setOrd) ==
    VisitEachNode(g, setOrd, dictOrd,
        [index |-> EmptyMap, lowlink |-> EmptyMap, counter |-> 0,
         stack |-> <<>>, onstack |-> {}, result |-> <<>>]).result

\* the positions j of "for j in range(len(cycle) - 1)" whose edge
\* cycle[j] -> cycle[j+1] is in new_graph
BreakablePositions(new_graph, cycle) ==
    {j \in 1..(Len(cycle) - 1) : cycle[j + 1] \in new_graph[cycle[j]]}

\* as BreakCycle, with the edge taken in the opposite direction
BreakCycleReversed(new_graph, cycle) ==
    LET found == {j \in 1..(Len(cycle) - 1) : cycle[j] \in new_graph[cycle[j + 1]]}
    IN  IF found = {} THEN new_graph
        ELSE LET j == MinOf(found)
             IN  [new_graph EXCEPT ![cycle[j + 1]] = @ \ {cycle[j]}]

\* one iteration of "for i, cycle in enumerate(cycles)": the first edge
\* cycle[j] -> cycle[j+1] that exists is removed, then break
BreakCycle(new_graph, cycle) ==
    LET found == BreakablePositions(new_graph, cycle)
    IN  IF found = {} THEN new_graph
        ELSE LET j == MinOf(found)
             IN  [new_graph EXCEPT ![cycle[j]] = @ \ {cycle[j + 1]}]

RECURSIVE BreakCycles(_, _)
BreakCycles(new_graph, cs) ==
    IF cs = <<>> THEN new_graph
    ELSE BreakCycles(BreakCycle(new_graph, Head(cs)), Tail(cs))

\* resolve_cycles, given the cycles that detect_cycles returned
resolve_cycles(g, cs) == IF cs = <<>> THEN g ELSE BreakCycles(g, cs)

RECURSIVE dfs(_, _, _)
RECURSIVE VisitDeps(_, _, _)

\* "for dep in sorted(acyclic_graph.get(node, set())): dfs(dep)"
VisitDeps(g, deps, st) ==
    IF deps = <<>> THEN st ELSE VisitDeps(g, Tail(deps), dfs(g, Head(deps), st))

dfs(g, node, st) ==
    IF node \in st.visited THEN st
    ELSE LET entered == [st EXCEPT !.visited = st.visited \cup {node}]
             deps    == IF node \in DOMAIN g THEN g[node] ELSE {}
             after   == VisitDeps(g, SortedSeq(deps), entered)
         IN  [after EXCEPT !.result = Append(after.result, node)]

\* the nodes that have no incoming edge, or the first key when there is none
root_nodes(g, dictOrd) ==
    LET has_incoming_edge == UNION {g[x] : x \in DOMAIN g}
        roots == {x \in DOMAIN g : x \notin has_incoming_edge}
    IN  IF roots = {} THEN Range(SubSeq(dictOrd, 1, Min(1, Len(dictOrd)))) ELSE roots

\* as DfsOrder, without the pass over the nodes that were not visited
DfsSkipsRemaining(g, dictOrd) ==
    VisitDeps(g, SortedSeq(root_nodes(g, dictOrd)), [visited |-> {}, result |-> <<>>]).result

\* the traversal of dependency_first_dfs on the graph resolve_cycles returned
DfsOrder(g, dictOrd) ==
    LET fromRoots == VisitDeps(g, SortedSeq(root_nodes(g, dictOrd)),
                               [visited |-> {}, result |-> <<>>])
    IN  IF Len(fromRoots.result) # Cardinality(DOMAIN g)
        THEN VisitDeps(g, SortedSeq(DOMAIN g), fromRoots).result
        ELSE fromRoots.result

dependency_first_dfs(g, dictOrd, setOrd) ==
    DfsOrder(resolve_cycles(g, detect_cycles(g, dictOrd, setOrd)), dictOrd)

\* "in_degree[dep] += 1" for every edge node -> dep: the number of nodes
\* that depend on x
in_degree(g) == [x \in DOMAIN g |-> Cardinality({n \in DOMAIN g : x \in g[n]})]

RECURSIVE ReduceDependents(_, _, _, _)
\* "for dependent, deps in acyclic_graph.items(): if node in deps: ..." for
\* the items that are still to be considered
ReduceDependents(g, node, items, st) ==
    IF items = <<>> THEN st
    ELSE LET dependent == Head(items) IN
         IF node \in g[dependent]
         THEN LET degree == st.in_degree[dependent] - 1
              IN  ReduceDependents(g, node, Tail(items),
                     [st EXCEPT !.in_degree[dependent] = degree,
                                !.queue = IF degree = 0 THEN Append(@, dependent) ELSE @])
         ELSE ReduceDependents(g, node, Tail(items), st)

RECURSIVE ProcessQueue(_, _, _)
\* "while queue: node = queue.popleft(); result.append(node); ..."
ProcessQueue(g, dictOrd, st) ==
    IF st.queue = <<>> THEN st.result
    ELSE LET node == Head(st.queue)
         IN  ProcessQueue(g, dictOrd,
                ReduceDependents(g, node, dictOrd,
                   [st EXCEPT !.queue = Tail(@), !.result = Append(@, node)]))

\* topological_sort on the graph resolve_cycles returned: the reversed
\* result of the loop, or the keys of the graph when a node is missing in it
KahnOrder(g, dictOrd) ==
    LET degrees == in_degree(g)
        result  == ProcessQueue(g, dictOrd,
                      [in_degree |-> degrees,
                       queue |-> SelectSeq(dictOrd, LAMBDA x : degrees[x] = 0),
                       result |-> <<>>])
    IN  IF Len(result) # Cardinality(DOMAIN g) THEN dictOrd ELSE Reverse(result)

topological_sort(g, dictOrd, setOrd) ==
    KahnOrder(resolve_cycles(g, detect_cycles(g, dictOrd, setOrd)), dictOrd)

\* build_graph_from_components: only dependencies that are components are kept
build_graph_from_components(ids, deps) == [x \in ids |-> deps[x] \cap ids]

----------------------------------------------------------------------------
(* dependency_analyzer/ast_parser.py                                       *)

ComponentTypes == {"function", "class", "method"}

\* The class a method belongs to: the nearest class before it in id order.
OwnerIn(k, m) == CHOOSE c \in 1..(m - 1) :
                    /\ k[c] = "class"
                    /\ \A j \in (c + 1)..(m - 1) : k[j] = "method"

Owner(m) == OwnerIn(kind, m)

\* The kinds a repository of n components can have: every method follows
\* its class or another method of that class.
Shapes(n) ==
    {k \in [1..n -> ComponentTypes] :
        /\ \A i \in 1..n : k[i] = "method" => (i > 1 /\ k[i - 1] \in {"class", "method"})
        /\ Cardinality({i \in 1..n : k[i] = "class"}) <= MaxClasses}

\* At most one method of a class is named __init__.
InitChoices(n, k) ==
    {I \in SUBSET {i \in 1..n : k[i] = "method"} :
        \A a, b \in I : OwnerIn(k, a) = OwnerIn(k, b) => a = b}

\* The DependencyCollector emits ids "module.name": module-level components
\* of the repository, or names that no component has.
RefTargets(n, k) == {i \in 1..n : k[i] # "method"} \cup {Ext}

RefChoices(n, k) ==
    {[x \in 1..n |-> {e[2] : e \in {d \in E : d[1] = x}}] :
        E \in SubsetsUpTo((1..n) \X RefTargets(n, k), MaxEdges)}

\* _collect_components: a class is inserted into the dict immediately before
\* its methods; files and top-level definitions come in any order.
KeyOrders(n, k) ==
    {p \in Perms(1..n) :
        \A i \in 1..n : k[p[i]] = "method" =>
            /\ i > 1
            /\ \/ p[i - 1] = OwnerIn(k, p[i])
               \/ (k[p[i - 1]] = "method" /\ OwnerIn(k, p[i - 1]) = OwnerIn(k, p[i]))}

\* _add_class_method_dependencies: the methods a class is made to depend on
class_methods(c) ==
    {m \in DOMAIN kind : kind[m] = "method" /\ Owner(m) = c /\ m \notin initm}

----------------------------------------------------------------------------
(* generate_docstrings.py: main()                                          *)

Ids == DOMAIN kind

\* The docstring a component has in its file: whether the first statement
\* of its body is a string, and the number of whitespace-separated tokens.
Undocumented == [has_docstring |-> FALSE, tokens |-> 0]

Documented(n) == [has_docstring |-> TRUE, tokens |-> n]

\* Docstrings of a repository before the run: none, one of 10 tokens and
\* one of 11 tokens.
InitialDocstrings == {Undocumented, Documented(10), Documented(11)}

\* len("No docstring provided.".split())
PlaceholderTokens == 3

\* Tokens of the docstrings that Orchestrator.process returns.
DocTokens(d) == CASE d = "doc_a" -> 10 [] d = "doc_b" -> 11 [] OTHER -> 0

\* set_node_docstring(node, docstring): the docstring that the node has
\* afterwards, the placeholder for an empty one
set_node_docstring(d) ==
    IF d = "" THEN Documented(PlaceholderTokens) ELSE Documented(DocTokens(d))

\* The CodeComponent records that parse_repository makes of the files as
\* they are: has_docstring, the length of the docstring, and the version of
\* the file that start_line, end_line and source_code were read from.
Parse(disk, versions) ==
    [x \in Ids |-> [has_docstring |-> disk[x].has_docstring,
                    docstring_length |-> disk[x].tokens,
                    version |-> versions[file_path[x]]]]

\* A file holds a class and its methods together; files are numbered in the
\* order of their first component.
FileChoices(n, k) ==
    {f \in [1..n -> 1..MaxFiles] :
        /\ \A i \in 1..n : k[i] = "method" => f[i] = f[OwnerIn(k, i)]
        /\ \A i \in 1..n : \A g \in 1..(f[i] - 1) : \E j \in 1..(i - 1) : f[j] = g}

\* "component.component_type == 'method' and component_id.endswith('.__init__')"
is_init_method(c) == kind[c] = "method" /\ c \in initm

\* as already_documented, with 11 for 10
AlreadyDocumentedAboveEleven(c) ==
    /\ components[c].has_docstring
    /\ ~overwrite_docstrings
    /\ components[c].docstring_length > 11

\* "component.has_docstring and not overwrite_docstrings and docstring_length > 10"
already_documented(c) ==
    /\ components[c].has_docstring
    /\ ~overwrite_docstrings
    /\ components[c].docstring_length > 10

\* set_docstring_in_file looks for classes and functions among the children
\* of the module only.
NotFound(c) == c \in nested \/ (kind[c] = "method" /\ Owner(c) \in nested)

\* as set_docstring_in_file, with the write in a try that returns False
WriteErrorsReturnFalse(c) ==
    IF NotFound(c) THEN "False"
    ELSE IF file_path[c] \in unwritable THEN "False" ELSE "True"

\* set_docstring_in_file(file_path, component, docstring): what it returns,
\* or "raises" when open(file_path, "w") raises
set_docstring_in_file(c) ==
    IF NotFound(c) THEN "False"
    ELSE IF file_path[c] \in unwritable THEN "raises" ELSE "True"

\* as same_file_components, with != for == on the file paths
OtherFileComponents(c) ==
    {x \in Range(sorted_components) : x # c /\ file_path[x] # file_path[c]}

\* "comp_id != component_id and components[comp_id].file_path == file_path"
same_file_components(c) ==
    {x \in Range(sorted_components) : x # c /\ file_path[x] = file_path[c]}

\* What orchestrator.process does in generate_docstring_for_component: it
\* returns a docstring (never an empty one: add_to_memory asserts it) or raises.
ProcessOutcomes == (WriterDocstrings \ {""}) \cup {"raises"}

\* as generate_docstring_for_component, with an except branch that returns
\* nothing
GenerateReturnsNone(outcome) ==
    IF outcome = "raises" THEN NoDocstring ELSE outcome

\* generate_docstring_for_component with an orchestrator: the try around
\* orchestrator.process returns "" when it raises
generate_docstring_for_component(outcome) ==
    IF outcome = "raises" THEN "" ELSE outcome

\* Values of the variables of main() that do not exist yet.
NotStarted ==
    /\ keys = <<>>
    /\ depends_on = <<>>
    /\ graph = <<>>
    /\ cycles = <<>>
    /\ acyclic_graph = <<>>
    /\ sorted_components = <<>>
    /\ pos = 0
    /\ components = <<>>

NothingDone ==
    /\ status = [x \in DOMAIN kind |-> "pending"]
    /\ file_version = [f \in Range(file_path) |-> 0]
    /\ main_docstring = NoDocstring
    /\ orchestrated = {}
    /\ raised_in = {}
    /\ written = {}

\* A repository of up to MaxNodes components with any references, all in
\* one writable file and without docstrings; main() runs in placeholder mode.
TopoInit ==
    /\ phase = "repo"
    /\ \E n \in 0..MaxNodes :
         \E k \in Shapes(n) :
            /\ kind = k
            /\ initm \in InitChoices(n, k)
            /\ refs \in RefChoices(n, k)
    /\ test_mode = "placeholder"
    /\ overwrite_docstrings = FALSE
    /\ file_path = [x \in DOMAIN kind |-> 1]
    /\ nested = {}
    /\ unwritable = {}
    /\ on_disk = [x \in DOMAIN kind |-> Undocumented]
    /\ NotStarted
    /\ NothingDone
    /\ OrchIdle

\* parser.parse_repository(): collect the components, resolve the
\* dependencies, add the class -> method dependencies
ParseRepository ==
    /\ phase = "repo"
    /\ phase' = "parsed"
    /\ keys' \in KeyOrders(Cardinality(Ids), kind)
    /\ depends_on' = [x \in Ids |->
                        refs[x] \cup (IF kind[x] = "class" THEN class_methods(x) ELSE {})]
    /\ components' = Parse(on_disk, file_version)
    /\ UNCHANGED <<kind, initm, refs, graph, cycles, acyclic_graph,
                   sorted_components, pos, status>>
    /\ UNCHANGED <<on_disk, file_version, main_docstring, orchestrated, raised_in, written>>
    /\ UNCHANGED mainConfig
    /\ UNCHANGED orchVars

\* graph = build_graph_from_components(components)
BuildGraph ==
    /\ phase = "parsed"
    /\ phase' = "graph"
    /\ graph' = build_graph_from_components(Ids, depends_on)
    /\ UNCHANGED <<kind, initm, refs, keys, depends_on, cycles, acyclic_graph,
                   sorted_components, pos, status>>
    /\ UNCHANGED <<mainConfig, mainState>>
    /\ UNCHANGED orchVars

\* The iteration orders the successor sets of g can have: the order matters
\* among the members of a set of two or more nodes only.
HashOrders(g) ==
    LET several == UNION {g[x] : x \in {y \in DOMAIN g : Cardinality(g[y]) >= 2}}
    IN  {p \o SortedSeq(DOMAIN g \ several) : p \in Perms(several)}

\* sorted_components = dependency_first_dfs(graph), in topo order mode
SortComponents ==
    /\ phase = "graph"
    /\ phase' = "sorted"
    /\ \E setOrd \in HashOrders(graph) :
         LET cs == detect_cycles(graph, keys, setOrd)
             ag == resolve_cycles(graph, cs)
         IN  /\ cycles' = cs
             /\ acyclic_graph' = ag
             /\ sorted_components' = DfsOrder(ag, keys)
    /\ pos' = 1
    /\ UNCHANGED <<kind, initm, refs, keys, depends_on, graph, status>>
    /\ UNCHANGED <<mainConfig, mainState>>
    /\ UNCHANGED orchVars

\* visualizer.initialize() and visualizer.show_dependency_stats(): max() of
\* an empty generator raises ValueError, which nothing catches
ShowDependencyStats ==
    /\ phase = "sorted"
    /\ phase' = IF Ids = {} THEN "crashed" ELSE "loop"
    /\ UNCHANGED <<kind, initm, refs, keys, depends_on, graph, cycles,
                   acyclic_graph, sorted_components, pos, status>>
    /\ UNCHANGED <<mainConfig, mainState>>
    /\ UNCHANGED orchVars

InLoop == phase = "loop" /\ pos <= Len(sorted_components)

Current == sorted_components[pos]

\* the two "continue" branches: __init__ methods, and components that
\* already have a docstring of more than 10 tokens when overwrite is off
SkipComponent ==
    /\ InLoop
    /\ status[Current] = "pending"
    /\ is_init_method(Current) \/ already_documented(Current)
    /\ status' = [status EXCEPT ![Current] = "completed"]
    /\ pos' = pos + 1
    /\ UNCHANGED <<phase, kind, initm, refs, keys, depends_on, graph, cycles,
                   acyclic_graph, sorted_components>>
    /\ UNCHANGED <<mainConfig, mainState>>
    /\ UNCHANGED orchVars

\* visualizer.update(component_id, "processing"), then
\* generate_docstring_for_component: "" without an orchestrator, else what
\* orchestrator.process returns, or "" when it raises
StartComponent ==
    /\ InLoop
    /\ status[Current] = "pending"
    /\ ~(is_init_method(Current) \/ already_documented(Current))
    /\ status' = [status EXCEPT ![Current] = "processing"]
    /\ IF test_mode = "placeholder"
       THEN /\ main_docstring' = ""
            /\ UNCHANGED <<orchestrated, raised_in>>
       ELSE \E outcome \in ProcessOutcomes :
               /\ orchestrated' = orchestrated \cup {Current}
               /\ main_docstring' = generate_docstring_for_component(outcome)
               /\ raised_in' = IF outcome = "raises"
                                THEN raised_in \cup {Current}
                                ELSE raised_in
    /\ UNCHANGED <<phase, kind, initm, refs, keys, depends_on, graph, cycles,
                   acyclic_graph, sorted_components, pos>>
    /\ UNCHANGED <<on_disk, file_version, components, written>>
    /\ UNCHANGED mainConfig
    /\ UNCHANGED orchVars

\* set_docstring_in_file(file_path, component, docstring), the update of the
\* visualizer, and the re-parse of the repository when other components of
\* the order are in the same file.  An exception of set_docstring_in_file
\* leaves main().
FinishComponent ==
    /\ InLoop
    /\ status[Current] = "processing"
    /\ LET success == set_docstring_in_file(Current)
           disk == IF success = "True"
                   THEN [on_disk EXCEPT ![Current] = set_node_docstring(main_docstring)]
                   ELSE on_disk
           versions == IF success = "True"
                       THEN [file_version EXCEPT ![file_path[Current]] = @ + 1]
                       ELSE file_version
       IN  IF success = "raises"
           THEN /\ phase' = "crashed"
                /\ UNCHANGED <<status, pos, mainState>>
           ELSE /\ status' = [status EXCEPT ![Current] =
                                 IF success = "True" THEN "completed" ELSE "error"]
                /\ on_disk' = disk
                /\ file_version' = versions
                /\ written' = IF success = "True" THEN written \cup {Current} ELSE written
                /\ components' = IF same_file_components(Current) # {}
                                 THEN Parse(disk, versions)
                                 ELSE components
                /\ main_docstring' = NoDocstring
                /\ pos' = pos + 1
                /\ UNCHANGED <<phase, orchestrated, raised_in>>
    /\ UNCHANGED <<kind, initm, refs, keys, depends_on, graph, cycles,
                   acyclic_graph, sorted_components>>
    /\ UNCHANGED mainConfig
    /\ UNCHANGED orchVars

\* visualizer.finalize() after the loop
FinishRun ==
    /\ phase = "loop"
    /\ pos > Len(sorted_components)
    /\ phase' = "end"
    /\ UNCHANGED <<kind, initm, refs, keys, depends_on, graph, cycles,
                   acyclic_graph, sorted_components, pos, status>>
    /\ UNCHANGED <<mainConfig, mainState>>
    /\ UNCHANGED orchVars

TopoNext ==
    \/ ParseRepository
    \/ BuildGraph
    \/ SortComponents
    \/ ShowDependencyStats
    \/ SkipComponent
    \/ StartComponent
    \/ FinishComponent
    \/ FinishRun

Spec == TopoInit /\ [][TopoNext]_vars

\* main() at the start of its loop, for a repository of 1..MaxComponents
\* components without references between them, in up to MaxFiles files,
\* with any docstrings, any arguments, nested classes and read-only files.
MainInit ==
    /\ phase = "loop"
    /\ \E n \in 1..MaxComponents :
         \E k \in Shapes(n) :
            /\ kind = k
            /\ initm \in InitChoices(n, k)
            /\ refs = [x \in 1..n |-> {}]
            /\ keys = [i \in 1..n |-> i]
            /\ file_path \in FileChoices(n, k)
            /\ nested \in SUBSET {i \in 1..n : k[i] = "class"}
            /\ on_disk \in [1..n -> InitialDocstrings]
    /\ unwritable \in SUBSET Range(file_path)
    /\ test_mode \in {"placeholder", "none"}
    /\ overwrite_docstrings \in BOOLEAN
    /\ depends_on = [x \in Ids |-> IF kind[x] = "class" THEN class_methods(x) ELSE {}]
    /\ graph = build_graph_from_components(Ids, depends_on)
    /\ cycles = detect_cycles(graph, keys, keys)
    /\ acyclic_graph = resolve_cycles(graph, cycles)
    /\ sorted_components = DfsOrder(acyclic_graph, keys)
    /\ pos = 1
    /\ NothingDone
    /\ components = Parse(on_disk, file_version)
    /\ OrchIdle

MainNext ==
    \/ SkipComponent
    \/ StartComponent
    \/ FinishComponent
    \/ FinishRun

MainSpec == MainInit /\ [][MainNext]_vars

\* main() runs on one thread: a step that can be taken is taken.
MainFairSpec == MainSpec /\ WF_vars(MainNext)

----------------------------------------------------------------------------
(* topological_sort as a library function: a call on any graph.            *)

\* The graphs on the nodes 1..n with at most MaxEdges edges.
Graphs(n) ==
    {[x \in 1..n |-> {e[2] : e \in {d \in E : d[1] = x}}] :
        E \in SubsetsUpTo((1..n) \X (1..n), MaxEdges)}

\* A caller holds a graph, a dict in some insertion order.
TopologicalSortInit ==
    /\ phase = "graph"
    /\ \E n \in 1..MaxNodes :
         /\ kind = [x \in 1..n |-> "function"]
         /\ graph \in Graphs(n)
         /\ keys \in Perms(1..n)
    /\ initm = {}
    /\ refs = graph
    /\ depends_on = graph
    /\ cycles = <<>>
    /\ acyclic_graph = <<>>
    /\ sorted_components = <<>>
    /\ pos = 0
    /\ components = <<>>
    /\ test_mode = "placeholder"
    /\ overwrite_docstrings = FALSE
    /\ file_path = [x \in DOMAIN kind |-> 1]
    /\ nested = {}
    /\ unwritable = {}
    /\ on_disk = [x \in DOMAIN kind |-> Undocumented]
    /\ NothingDone
    /\ OrchIdle

\* sorted_components = topological_sort(graph)
TopologicalSort ==
    /\ phase = "graph"
    /\ phase' = "sorted"
    /\ \E setOrd \in HashOrders(graph) :
         LET cs == detect_cycles(graph, keys, setOrd)
             ag == resolve_cycles(graph, cs)
         IN  /\ cycles' = cs
             /\ acyclic_graph' = ag
             /\ sorted_components' = topological_sort(graph, keys, setOrd)
    /\ UNCHANGED <<kind, initm, refs, keys, depends_on, graph, pos, status>>
    /\ UNCHANGED <<mainConfig, mainState>>
    /\ UNCHANGED orchVars

TopologicalSortNext == TopologicalSort

TopologicalSortSpec == TopologicalSortInit /\ [][TopologicalSortNext]_vars

----------------------------------------------------------------------------
(* agent/orchestrator.py, agent/base.py, reader.py, writer.py, verifier.py *)

max_reader_search_attempts == 4
max_verifier_rejections == 3

\* What an XML block of a response can hold: its text, or "absent" when the
\* response has no such block.
TagValues == {"true", " True ", "false", "absent"}

\* text.strip().lower()
StripLower(text) == IF text = " True " THEN "true" ELSE text

\* The responses the Reader's LLM can give: empty, or some text with or
\* without an INFO_NEED block.
ReaderResponses == [empty : BOOLEAN, INFO_NEED : TagValues]

VerifierResponses ==
    [NEED_REVISION : TagValues, MORE_CONTEXT : TagValues,
     SUGGESTION_CONTEXT : {"absent", "show the callers"},
     SUGGESTION : {"absent", "describe the arguments"}]

\* The response has the block and its text is "true" (any case, any
\* surrounding blanks).
BlockIsTrue(text) == text \in {"true", " True "}

\* as needs_info, taking a response without the block as one that asks
NeedsInfoUnlessFalse(response) == StripLower(response.INFO_NEED) # "false"

\* re.search(r'<INFO_NEED>(.*?)</INFO_NEED>') and the comparison with 'true'
needs_info(response) ==
    response.INFO_NEED # "absent" /\ StripLower(response.INFO_NEED) = "true"

TagText(text) == IF text = "absent" THEN "" ELSE text

\* as _parse_verifier_response, comparing the text of a block as it is
ParseComparesRawText(response) ==
    LET needs_revision == response.NEED_REVISION = "true"
        needs_context  == needs_revision /\ response.MORE_CONTEXT = "true"
    IN  [needs_revision |-> needs_revision,
         needs_context |-> needs_context,
         suggestion |-> IF needs_revision /\ response.MORE_CONTEXT # "absent" /\ ~needs_context
                        THEN TagText(response.SUGGESTION) ELSE "",
         context_suggestion |-> IF needs_context
                                THEN TagText(response.SUGGESTION_CONTEXT) ELSE ""]

\* Orchestrator._parse_verifier_response
_parse_verifier_response(response) ==
    LET needs_revision == response.NEED_REVISION # "absent"
                          /\ StripLower(response.NEED_REVISION) = "true"
        needs_context  == needs_revision /\ response.MORE_CONTEXT # "absent"
                          /\ StripLower(response.MORE_CONTEXT) = "true"
    IN  [needs_revision |-> needs_revision,
         needs_context |-> needs_context,
         suggestion |-> IF needs_revision /\ response.MORE_CONTEXT # "absent" /\ ~needs_context
                        THEN TagText(response.SUGGESTION) ELSE "",
         context_suggestion |-> IF needs_context
                                THEN TagText(response.SUGGESTION_CONTEXT) ELSE ""]

\* A message of an agent memory: role, what the content is, and the text
\* that the content embeds.
Message(role, what, text) == <<role, what, text>>

SystemPrompt(agent) == Message("system", "system_prompt", agent)

\* as clear_memory, keeping the first message
KeepsSystemPrompt(memory) == SubSeq(memory, 1, Min(1, Len(memory)))

\* BaseAgent.clear_memory
clear_memory(memory) == <<>>

\* as AcceptsDocstring, with > for >=
AcceptsAboveMax(result, rejections) ==
    ~result.needs_revision \/ rejections > max_verifier_rejections

\* "if not verification_result['needs_revision'] or
\*     verifier_rejection_count >= self.max_verifier_rejections"
AcceptsDocstring(result, rejections) ==
    ~result.needs_revision \/ rejections >= max_verifier_rejections

\* as AsksSearcher, with <= for <
SearchesAtMax(response, attempts) ==
    needs_info(response) /\ attempts <= max_reader_search_attempts

\* "if needs_info and reader_search_attempts < self.max_reader_search_attempts"
AsksSearcher(response, attempts) ==
    needs_info(response) /\ attempts < max_reader_search_attempts

\* as HandsBackToReader, without looking at needs_context
HandsBackWithoutContextNeed(result, attempts) ==
    attempts < max_reader_search_attempts

\* "if verification_result['needs_context'] and
\*     reader_search_attempts < self.max_reader_search_attempts"
HandsBackToReader(result, attempts) ==
    result.needs_context /\ attempts < max_reader_search_attempts

\* The sections of the context that search results are merged into, and all
\* the tags of the skeleton that _update_context starts from.
SectionTags == {"CLASS", "FUNCTION", "METHOD", "CALL_BY", "EXTERNAL_RETRIEVAL_INFO"}

SkeletonTags == {"CONTEXT", "INTERNAL_INFO"} \cup SectionTags

Skeleton == [t \in SkeletonTags |-> 0]

\* Tokens that a tag and its end tag take in the encoding of the context.
TagTokens == 1

RECURSIVE SumOver(_, _)
SumOver(f, S) == IF S = {} THEN 0
                 ELSE LET x == CHOOSE y \in S : TRUE
                      IN  f[x] + TagTokens + SumOver(f, S \ {x})

\* len(encoding.encode(self.context))
TokensOf(ctx) == SumOver(ctx, DOMAIN ctx)

\* What Searcher.process can return: the tokens it found for every section
\* (0: an empty dict or list), at most two sections at a time.
SearchResults ==
    {r \in [SectionTags -> 0..MaxFound] : Cardinality({t \in SectionTags : r[t] > 0}) <= 2}

NothingFound == [t \in SectionTags |-> 0]

\* update_xml_section(tag, content_list) of _update_context
update_xml_section(ctx, tag, content_list) ==
    IF content_list = 0 \/ tag \notin DOMAIN ctx
    THEN ctx
    ELSE [ctx EXCEPT ![tag] = @ + content_list]

\* the tags _constrain_context_length looks for, in the order of its list
ConstrainComponents ==
    <<"CODE_CONTEXT", "FOCAL_COMPONENT", "RELATED_COMPONENTS", "FOCAL_DEPENDENCIES",
      "EXTERNAL_RETRIEVAL_INFO">>

\* max(component_tokens.items(), key=...): the first of the largest
LongestComponent(ctx, found) ==
    found[CHOOSE i \in DOMAIN found :
             \A j \in DOMAIN found : /\ ctx[found[j]] <= ctx[found[i]]
                                     /\ (j < i => ctx[found[j]] < ctx[found[i]])]

\* as _constrain_context_length, taking an emptied section out of the context
ConstrainDropsEmptied(ctx, max_tokens, focal) ==
    LET current_tokens == TokensOf(ctx)
        found == SelectSeq(ConstrainComponents, LAMBDA t : t \in DOMAIN ctx)
        tokens_to_remove == current_tokens + focal - max_tokens
    IN  IF current_tokens + focal <= max_tokens \/ found = <<>>
        THEN ctx
        ELSE LET component_name == LongestComponent(ctx, found)
             IN  IF tokens_to_remove >= ctx[component_name]
                 THEN [t \in DOMAIN ctx \ {component_name} |-> ctx[t]]
                 ELSE [ctx EXCEPT ![component_name] = @ - tokens_to_remove]

\* Orchestrator._constrain_context_length
_constrain_context_length(ctx, max_tokens, focal) ==
    LET current_tokens == TokensOf(ctx)
        found == SelectSeq(ConstrainComponents, LAMBDA t : t \in DOMAIN ctx)
        tokens_to_remove == current_tokens + focal - max_tokens
    IN  IF current_tokens + focal <= max_tokens \/ found = <<>>
        THEN ctx
        ELSE LET component_name == LongestComponent(ctx, found)
             IN  IF tokens_to_remove >= ctx[component_name]
                 THEN [ctx EXCEPT ![component_name] = 0]
                 ELSE [ctx EXCEPT ![component_name] = @ - tokens_to_remove]

\* _update_context up to the call of _constrain_context_length: the
\* skeleton if there is no context yet, then one update_xml_section a section
MergeResults(ctx, search_results) ==
    LET c0 == IF ctx = EmptyString THEN Skeleton ELSE ctx
        c1 == update_xml_section(c0, "CLASS", search_results["CLASS"])
        c2 == update_xml_section(c1, "FUNCTION", search_results["FUNCTION"])
        c3 == update_xml_section(c2, "METHOD", search_results["METHOD"])
        c4 == update_xml_section(c3, "CALL_BY", search_results["CALL_BY"])
    IN  update_xml_section(c4, "EXTERNAL_RETRIEVAL_INFO",
                           search_results["EXTERNAL_RETRIEVAL_INFO"])

\* Orchestrator._update_context
_update_context(ctx, search_results, max_tokens, focal) ==
    _constrain_context_length(MergeResults(ctx, search_results), max_tokens, focal)

\* Values of max_input_tokens and token_consume_focal that make the context
\* fit, exceed the budget by less than a section, and exceed it by more.
TokenBudgets == {TokensOf(Skeleton) + 2, TokensOf(Skeleton) + 4}

FocalTokens == {0, 2, TokensOf(Skeleton) + 5}

TopoIdle ==
    /\ phase = "none"
    /\ kind = <<>>
    /\ initm = {}
    /\ refs = <<>>
    /\ keys = <<>>
    /\ depends_on = <<>>
    /\ graph = <<>>
    /\ cycles = <<>>
    /\ acyclic_graph = <<>>
    /\ sorted_components = <<>>
    /\ pos = 0
    /\ status = <<>>
    /\ test_mode = "none"
    /\ overwrite_docstrings = FALSE
    /\ file_path = <<>>
    /\ nested = {}
    /\ unwritable = {}
    /\ on_disk = <<>>
    /\ file_version = <<>>
    /\ components = <<>>
    /\ main_docstring = NoDocstring
    /\ orchestrated = {}
    /\ raised_in = {}
    /\ written = {}

\* Orchestrator.__init__: every agent has put its system prompt in its memory
Constructed ==
    /\ TopoIdle
    /\ opc = "idle"
    /\ reader_search_attempts = 0
    /\ verifier_rejection_count = 0
    /\ context = EmptyString
    /\ reader_memory = <<SystemPrompt("reader")>>
    /\ writer_memory = <<SystemPrompt("writer")>>
    /\ verifier_memory = <<SystemPrompt("verifier")>>
    /\ reader_response = NoResponse
    /\ docstring = NoDocstring
    /\ verification_response = NoResponse
    /\ returned = NoDocstring
    /\ calls = [a \in Agents |-> 0]
    /\ last_writer_output = NoDocstring
    /\ response_log = NoneRead
    /\ LlmIdle
    /\ ToolIdle

\* The Orchestrator as main() makes it, with the default max_input_tokens,
\* for a component that the Searcher finds nothing about.
OrchInit ==
    /\ Constructed
    /\ orchestrator_test_mode = "None"
    /\ max_input_tokens = 10000
    /\ token_consume_focal = 0
    /\ searchable = {NothingFound}

\* The Orchestrator in its "reader_searcher" test mode, for any budget, any
\* size of the focal component and any search results.
ReaderSearcherInit ==
    /\ Constructed
    /\ orchestrator_test_mode = "reader_searcher"
    /\ max_input_tokens \in TokenBudgets
    /\ token_consume_focal \in FocalTokens
    /\ searchable = SearchResults

\* process() is entered: context and counters are reset
ProcessCalled ==
    /\ opc = "idle"
    /\ opc' = "read"
    /\ context' = EmptyString
    /\ reader_search_attempts' = 0
    /\ verifier_rejection_count' = 0
    /\ response_log' = NoneRead
    /\ UNCHANGED <<reader_memory, writer_memory, verifier_memory, reader_response,
                   docstring, verification_response, returned, calls, last_writer_output>>
    /\ UNCHANGED orchConfig
    /\ UNCHANGED topoVars

\* self.reader.process(...) returns, the response is added to the Reader's
\* memory (add_to_memory asserts that it is not empty) and INFO_NEED is read
ReaderCall ==
    /\ opc = "read"
    /\ calls' = [calls EXCEPT !["reader"] = @ + 1]
    /\ verification_response' = NoResponse
    /\ \E response \in ReaderResponses :
         LET asked == Append(reader_memory, Message("user", "task", ""))
         IN  /\ reader_response' = response
             /\ IF response.empty
                THEN /\ reader_memory' = asked
                     /\ opc' = "raised"
                     /\ UNCHANGED <<reader_search_attempts, returned, response_log>>
                ELSE /\ reader_memory' = Append(asked, Message("assistant", "response", ""))
                     /\ response_log' =
                           IF BlockIsTrue(response.INFO_NEED)
                           THEN [response_log EXCEPT !.info_need = @ + 1]
                           ELSE response_log
                     /\ IF AsksSearcher(response, reader_search_attempts)
                        THEN /\ reader_search_attempts' = reader_search_attempts + 1
                             /\ opc' = "search"
                             /\ UNCHANGED returned
                        ELSE /\ UNCHANGED reader_search_attempts
                             /\ IF orchestrator_test_mode = "reader_searcher"
                                THEN /\ opc' = "returned"
                                     /\ returned' = response
                                ELSE /\ opc' = "write"
                                     /\ UNCHANGED returned
    /\ UNCHANGED <<verifier_rejection_count, context, writer_memory, verifier_memory,
                   docstring, last_writer_output>>
    /\ UNCHANGED orchConfig
    /\ UNCHANGED topoVars

\* self.searcher.process(...), _update_context and the refresh of the
\* Reader's memory; "continue" goes back to the Reader
SearcherCall ==
    /\ opc = "search"
    /\ calls' = [calls EXCEPT !["searcher"] = @ + 1]
    /\ \E search_results \in searchable :
         context' = _update_context(context, search_results, max_input_tokens,
                                    token_consume_focal)
    /\ reader_memory' = <<SystemPrompt("reader"), Message("user", "current_context", "")>>
    /\ reader_response' = NoResponse
    /\ opc' = "read"
    /\ UNCHANGED <<reader_search_attempts, verifier_rejection_count, writer_memory,
                   verifier_memory, docstring, verification_response, returned,
                   last_writer_output, response_log>>
    /\ UNCHANGED orchConfig
    /\ UNCHANGED topoVars

\* self.writer.process(...) returns a docstring, which is added to the
\* Writer's memory (add_to_memory asserts that it is not empty)
WriterCall ==
    /\ opc = "write"
    /\ calls' = [calls EXCEPT !["writer"] = @ + 1]
    /\ reader_response' = NoResponse
    /\ verification_response' = NoResponse
    /\ \E doc \in WriterDocstrings :
         LET asked == Append(writer_memory, Message("user", "task", ""))
         IN  /\ docstring' = doc
             /\ last_writer_output' = doc
             /\ IF doc = ""
                THEN /\ writer_memory' = asked
                     /\ opc' = "raised"
                ELSE /\ writer_memory' = Append(asked, Message("assistant", "docstring", doc))
                     /\ opc' = "verify"
    /\ UNCHANGED <<reader_search_attempts, verifier_rejection_count, context,
                   reader_memory, verifier_memory, returned, response_log>>
    /\ UNCHANGED orchConfig
    /\ UNCHANGED topoVars

\* self.verifier.process(...) returns and the verdict is handled: return the
\* docstring, hand back to the Reader, or hand back to the Writer
VerifierCall ==
    /\ opc = "verify"
    /\ calls' = [calls EXCEPT !["verifier"] = @ + 1]
    /\ \E response \in VerifierResponses :
         LET asked == Append(verifier_memory, Message("user", "task", docstring))
             verification_result == _parse_verifier_response(response)
         IN  /\ verification_response' = response
             /\ response_log' =
                   IF ~BlockIsTrue(response.NEED_REVISION) THEN response_log
                   ELSE IF BlockIsTrue(response.MORE_CONTEXT)
                        THEN [response_log EXCEPT !.revise_context = @ + 1]
                        ELSE [response_log EXCEPT !.revise = @ + 1]
             /\ IF AcceptsDocstring(verification_result, verifier_rejection_count)
                THEN /\ opc' = "returned"
                     /\ returned' = docstring
                     /\ verifier_memory' = asked
                     /\ UNCHANGED <<verifier_rejection_count, reader_memory, writer_memory>>
                ELSE /\ verifier_rejection_count' = verifier_rejection_count + 1
                     /\ verifier_memory' = clear_memory(asked)
                     /\ UNCHANGED returned
                     /\ IF HandsBackToReader(verification_result, reader_search_attempts)
                        THEN /\ reader_memory' =
                                  Append(reader_memory,
                                         Message("user", "additional_context_needed",
                                                 verification_result.context_suggestion))
                             /\ writer_memory' = clear_memory(writer_memory)
                             /\ opc' = "read"
                        ELSE /\ writer_memory' =
                                  Append(writer_memory,
                                         Message("user", "please_improve",
                                                 verification_result.suggestion))
                             /\ UNCHANGED reader_memory
                             /\ opc' = "write"
    /\ UNCHANGED <<reader_search_attempts, context, reader_response, docstring,
                   last_writer_output>>
    /\ UNCHANGED orchConfig
    /\ UNCHANGED topoVars

\* The call of an agent raises (its LLM call fails): process() is left by
\* the exception.  Reader, Writer and Verifier have put the task in their
\* memory before the LLM is called.
AgentCallRaises ==
    /\ opc \in {"read", "search", "write", "verify"}
    /\ opc' = "raised"
    /\ calls' = [calls EXCEPT ![CASE opc = "read" -> "reader" [] opc = "search" -> "searcher"
                                  [] opc = "write" -> "writer" [] OTHER -> "verifier"] = @ + 1]
    /\ reader_memory' = IF opc = "read"
                        THEN Append(reader_memory, Message("user", "task", ""))
                        ELSE reader_memory
    /\ writer_memory' = IF opc = "write"
                        THEN Append(writer_memory, Message("user", "task", ""))
                        ELSE writer_memory
    /\ verifier_memory' = IF opc = "verify"
                          THEN Append(verifier_memory, Message("user", "task", docstring))
                          ELSE verifier_memory
    /\ UNCHANGED <<reader_search_attempts, verifier_rejection_count, context,
                   reader_response, docstring, verification_response, returned,
                   last_writer_output, response_log>>
    /\ UNCHANGED orchConfig
    /\ UNCHANGED topoVars

OrchNext ==
    \/ ProcessCalled
    \/ ReaderCall
    \/ SearcherCall
    \/ WriterCall
    \/ VerifierCall
    \/ AgentCallRaises

OrchSpec == OrchInit /\ [][OrchNext]_vars

\* process() runs on one thread and every call blocks until it returns or
\* raises: a step that can be taken is taken.
OrchFairSpec == OrchSpec /\ WF_vars(OrchNext)

\* process() in the "reader_searcher" test mode returns the Reader's
\* response once the context is gathered: Writer and Verifier do not exist.
ReaderSearcherNext ==
    \/ ProcessCalled
    \/ ReaderCall
    \/ SearcherCall
    \/ AgentCallRaises

ReaderSearcherSpec == ReaderSearcherInit /\ [][ReaderSearcherNext]_vars

----------------------------------------------------------------------------
(* generate_docstrings.py main(): one Orchestrator, made once, whose       *)
(* process() is called for one component after the other.                  *)

\* The answers of the LLMs in a run over several components: the Reader
\* answers with INFO_NEED true or false, the Writer with a docstring, the
\* Verifier with NEED_REVISION and MORE_CONTEXT true or false and both
\* suggestions.  A call that fails is a step of AgentCallRaises.
RunReaderResponses ==
    {r \in ReaderResponses : ~r.empty /\ r.INFO_NEED \in {"true", "false"}}

RunWriterDocstrings == {"doc_a"}

RunVerifierResponses ==
    {v \in VerifierResponses :
        /\ v.NEED_REVISION \in {"true", "false"}
        /\ v.MORE_CONTEXT \in {"true", "false"}
        /\ v.SUGGESTION_CONTEXT = "show the callers"
        /\ v.SUGGESTION = "describe the arguments"}

RunAnswers ==
    /\ reader_response \in {NoResponse} \cup RunReaderResponses
    /\ last_writer_output \in {NoDocstring} \cup RunWriterDocstrings
    /\ verification_response \in {NoResponse} \cup RunVerifierResponses

\* process() has returned, or has raised and generate_docstring_for_component
\* has caught the exception; the main loop calls process() on the same
\* Orchestrator for the next component.  process() resets the context and
\* its counters; pos counts the components done.
ProcessCalledAgain ==
    /\ opc \in {"returned", "raised"}
    /\ pos + 1 < MaxComponents
    /\ pos' = pos + 1
    /\ opc' = "read"
    /\ context' = EmptyString
    /\ reader_search_attempts' = 0
    /\ verifier_rejection_count' = 0
    /\ response_log' = NoneRead
    /\ reader_response' = NoResponse
    /\ docstring' = NoDocstring
    /\ verification_response' = NoResponse
    /\ returned' = NoDocstring
    /\ calls' = [a \in Agents |-> 0]
    /\ last_writer_output' = NoDocstring
    /\ UNCHANGED <<reader_memory, writer_memory, verifier_memory>>
    /\ UNCHANGED orchConfig
    /\ UNCHANGED <<phase, kind, initm, refs, keys, depends_on, graph, cycles,
                   acyclic_graph, sorted_components, status, mainConfig, mainState>>

OrchRunNext ==
    \/ ProcessCalled /\ RunAnswers'
    \/ ReaderCall /\ RunAnswers'
    \/ SearcherCall /\ RunAnswers'
    \/ WriterCall /\ RunAnswers'
    \/ VerifierCall /\ RunAnswers'
    \/ AgentCallRaises /\ RunAnswers'
    \/ ProcessCalledAgain

OrchRunSpec == OrchInit /\ [][OrchRunNext]_vars

----------------------------------------------------------------------------
(* agent/llm/rate_limiter.py, openai_llm.py, claude_llm.py, factory.py and *)
(* BaseAgent.__init__: the rate limiting of the LLM requests.              *)

\* 60 seconds, in ticks of the clock
Minute == 2

\* The rate_limits of the configuration file.
RequestsPerMinute == 3
InputTokensPerMinute == 10
OutputTokensPerMinute == 10

\* RateLimiter.__init__: every limit is multiplied by 1 - buffer_percentage,
\* 0.9 with the default buffer; the fields are kept in tenths.
requests_per_minute == RequestsPerMinute * 9
input_tokens_per_minute == InputTokensPerMinute * 9
output_tokens_per_minute == OutputTokensPerMinute * 9

\* provider="OpenAI" in OpenAILLM.__init__, provider="Claude" in ClaudeLLM.__init__
Providers == {"OpenAI", "Claude"}

\* The sizes a request can have; the largest is above the capacity of a minute.
InputTokens == {4, 6, 10}

\* llm_params["max_output_tokens"]: the estimated_output_tokens of every request
max_output_tokens == 2

\* response.usage.completion_tokens
OutputTokens == {1}

Callers == DOMAIN rl_pc

\* The Orchestrator's own variables, which the LLM clients do not touch.
orchOwnVars == <<opc, reader_search_attempts, verifier_rejection_count, context,
                 reader_memory, writer_memory, verifier_memory, reader_response,
                 docstring, verification_response, returned, calls, last_writer_output,
                 response_log, orchestrator_test_mode, max_input_tokens,
                 token_consume_focal, searchable>>

RECURSIVE _clean_old_entries(_)
\* _clean_old_entries on request_timestamps: entries are popped from the left
\* while the oldest is older than a minute ("usage_queue[0] < one_minute_ago")
_clean_old_entries(usage_queue) ==
    IF usage_queue # <<>> /\ Head(usage_queue) > Minute
    THEN _clean_old_entries(Tail(usage_queue))
    ELSE usage_queue

RECURSIVE CleanUsage(_)
\* _clean_old_entries on a queue of (timestamp, count) tuples
CleanUsage(usage_queue) ==
    IF usage_queue # <<>> /\ Head(usage_queue)[1] > Minute
    THEN CleanUsage(Tail(usage_queue))
    ELSE usage_queue

RECURSIVE _get_usage_count(_)
\* "sum(count for _, count in usage_queue)"
_get_usage_count(usage_queue) ==
    IF usage_queue = <<>> THEN 0
    ELSE Head(usage_queue)[2] + _get_usage_count(Tail(usage_queue))

Max(a, b) == IF a > b THEN a ELSE b

\* "if ((current_requests + 1) <= self.requests_per_minute and ...": the
\* request fits in what is left of the minute
FitsInLimits(timestamps, input_usage, output_usage, tokens, estimated_output_tokens) ==
    /\ (Len(timestamps) + 1) * 10 <= requests_per_minute
    /\ (_get_usage_count(input_usage) + tokens) * 10 <= input_tokens_per_minute
    /\ (_get_usage_count(output_usage) + estimated_output_tokens) * 10
          <= output_tokens_per_minute

\* wait_time: the time until the oldest entry of a queue is a minute old
WaitTime(timestamps, input_usage, output_usage) ==
    LET w1 == IF timestamps # <<>> THEN Max(0, Minute - Head(timestamps)) ELSE 0
        w2 == IF input_usage # <<>> THEN Max(w1, Minute - Head(input_usage)[1]) ELSE w1
    IN  IF output_usage # <<>> THEN Max(w2, Minute - Head(output_usage)[1]) ELSE w2

\* as GivesUp, with a strict comparison
GivesUpBelowZero(wait_time) == wait_time < 0

\* "if wait_time <= 0: ... break"
GivesUp(wait_time) == wait_time <= 0

\* "if input_tokens > self.input_tokens_per_minute or estimated_output_tokens
\* > self.output_tokens_per_minute": the warning of lines 98-102 is logged
AboveCapacity(tokens, estimated_output_tokens) ==
    \/ tokens * 10 > input_tokens_per_minute
    \/ estimated_output_tokens * 10 > output_tokens_per_minute

RECURSIVE Recorded(_)
\* The number of entries in the request queues of the limiters 1..l.
Recorded(l) == IF l = 0 THEN 0 ELSE Len(request_timestamps[l]) + Recorded(l - 1)

\* The callers that are inside generate().
InFlight == {d \in Callers : rl_pc[d] # "idle"}

\* Caller c starts generate(messages): the tokens of the messages are counted.
Generate(c) ==
    /\ rl_pc[c] = "idle"
    /\ Recorded(Len(request_timestamps)) + Cardinality(InFlight) < MaxQueue
    /\ \E tokens \in InputTokens : input_tokens' = [input_tokens EXCEPT ![c] = tokens]
    /\ rl_pc' = [rl_pc EXCEPT ![c] = "wait_if_needed"]
    /\ UNCHANGED <<provider, rate_limiter, lock, request_timestamps, input_token_usage,
                   output_token_usage, sleep_left, iterations, queued_at_entry, warned>>
    /\ UNCHANGED <<topoVars, orchOwnVars, toolVars>>

\* wait_if_needed: "with self.lock", and the warning for a request that is
\* above the capacity of a minute
TakeLock(c) ==
    LET l == rate_limiter[c] IN
    /\ rl_pc[c] = "wait_if_needed"
    /\ lock[l] = 0
    /\ lock' = [lock EXCEPT ![l] = c]
    /\ warned' = [warned EXCEPT ![c] = AboveCapacity(input_tokens[c], max_output_tokens)]
    /\ iterations' = [iterations EXCEPT ![c] = 0]
    /\ queued_at_entry' = [queued_at_entry EXCEPT ![c] = Len(request_timestamps[l])]
    /\ rl_pc' = [rl_pc EXCEPT ![c] = "loop"]
    /\ UNCHANGED <<provider, rate_limiter, request_timestamps, input_token_usage,
                   output_token_usage, input_tokens, sleep_left>>
    /\ UNCHANGED <<topoVars, orchOwnVars, toolVars>>

\* One iteration of "while True" in wait_if_needed: old entries are removed,
\* then the caller proceeds (the request fits, or waiting cannot help) and
\* the lock is released, or it sleeps with the lock held.
LoopIteration(c) ==
    LET l          == rate_limiter[c]
        timestamps == _clean_old_entries(request_timestamps[l])
        input_use  == CleanUsage(input_token_usage[l])
        output_use == CleanUsage(output_token_usage[l])
        wait_time  == WaitTime(timestamps, input_use, output_use)
    IN  /\ rl_pc[c] = "loop"
        /\ request_timestamps' = [request_timestamps EXCEPT ![l] = timestamps]
        /\ input_token_usage' = [input_token_usage EXCEPT ![l] = input_use]
        /\ output_token_usage' = [output_token_usage EXCEPT ![l] = output_use]
        /\ iterations' = [iterations EXCEPT ![c] = Min(@ + 1, MaxQueue + 2)]
        /\ IF \/ FitsInLimits(timestamps, input_use, output_use, input_tokens[c],
                              max_output_tokens)
              \/ GivesUp(wait_time)
           THEN /\ rl_pc' = [rl_pc EXCEPT ![c] = "request"]
                /\ lock' = [lock EXCEPT ![l] = 0]
                /\ UNCHANGED sleep_left
           ELSE /\ rl_pc' = [rl_pc EXCEPT ![c] = "sleep"]
                /\ sleep_left' = [sleep_left EXCEPT ![c] = Max(wait_time, 0)]
                /\ UNCHANGED lock
        /\ UNCHANGED <<provider, rate_limiter, input_tokens, queued_at_entry, warned>>
        /\ UNCHANGED <<topoVars, orchOwnVars, toolVars>>

\* time.sleep(wait_time) returns: at least wait_time has passed
WakeUp(c) ==
    /\ rl_pc[c] = "sleep"
    /\ sleep_left[c] = 0
    /\ rl_pc' = [rl_pc EXCEPT ![c] = "loop"]
    /\ UNCHANGED <<provider, rate_limiter, lock, request_timestamps, input_token_usage,
                   output_token_usage, input_tokens, sleep_left, iterations,
                   queued_at_entry, warned>>
    /\ UNCHANGED <<topoVars, orchOwnVars, toolVars>>

\* generate() is left: its locals, and what is remembered of the call, go.
LeavesGenerate(c) ==
    /\ input_tokens' = [input_tokens EXCEPT ![c] = 0]
    /\ iterations' = [iterations EXCEPT ![c] = 0]
    /\ queued_at_entry' = [queued_at_entry EXCEPT ![c] = 0]
    /\ warned' = [warned EXCEPT ![c] = FALSE]

\* The API call has returned: record_request(input_tokens, output_tokens)
\* appends the current time to the three queues, under the lock.
RecordRequest(c) ==
    LET l == rate_limiter[c] IN
    /\ rl_pc[c] = "request"
    /\ lock[l] = 0
    /\ request_timestamps' = [request_timestamps EXCEPT ![l] = Append(@, 0)]
    /\ input_token_usage' = [input_token_usage EXCEPT ![l] = Append(@, <<0, input_tokens[c]>>)]
    /\ \E output_tokens \in OutputTokens :
         output_token_usage' = [output_token_usage EXCEPT ![l] = Append(@, <<0, output_tokens>>)]
    /\ rl_pc' = [rl_pc EXCEPT ![c] = "idle"]
    /\ LeavesGenerate(c)
    /\ UNCHANGED <<provider, rate_limiter, lock, sleep_left>>
    /\ UNCHANGED <<topoVars, orchOwnVars, toolVars>>

\* The API call raises: generate() is left before record_request.
ApiCallRaises(c) ==
    /\ rl_pc[c] = "request"
    /\ rl_pc' = [rl_pc EXCEPT ![c] = "idle"]
    /\ LeavesGenerate(c)
    /\ UNCHANGED <<provider, rate_limiter, lock, request_timestamps, input_token_usage,
                   output_token_usage, sleep_left>>
    /\ UNCHANGED <<topoVars, orchOwnVars, toolVars>>

Older(age) == Min(age + 1, Minute + 1)

\* The clock advances by one tick: every entry is one tick older (entries
\* older than a minute are all alike), every sleep has one tick less to go.
Tick ==
    /\ request_timestamps' =
          [l \in DOMAIN request_timestamps |->
              [i \in DOMAIN request_timestamps[l] |-> Older(request_timestamps[l][i])]]
    /\ input_token_usage' =
          [l \in DOMAIN input_token_usage |->
              [i \in DOMAIN input_token_usage[l] |->
                  <<Older(input_token_usage[l][i][1]), input_token_usage[l][i][2]>>]]
    /\ output_token_usage' =
          [l \in DOMAIN output_token_usage |->
              [i \in DOMAIN output_token_usage[l] |->
                  <<Older(output_token_usage[l][i][1]), output_token_usage[l][i][2]>>]]
    /\ sleep_left' = [c \in DOMAIN sleep_left |-> Max(sleep_left[c] - 1, 0)]
    /\ UNCHANGED <<provider, rate_limiter, lock, rl_pc, input_tokens, iterations,
                   queued_at_entry, warned>>
    /\ UNCHANGED <<topoVars, orchOwnVars, toolVars>>

\* The LLM clients after construction.  BaseAgent.__init__ makes a client,
\* and so a RateLimiter, for every agent; or several threads call generate()
\* on one client.
RateLimiterInit ==
    /\ TopoIdle
    /\ NoOrchestrator
    /\ ToolIdle
    /\ \E n \in 1..MaxThreads :
         /\ \/ /\ provider \in [1..n -> Providers]
               /\ rate_limiter = [c \in 1..n |-> c]
            \/ /\ \E p \in Providers : provider = [c \in 1..n |-> p]
               /\ rate_limiter = [c \in 1..n |-> 1]
         /\ lock = [l \in 1..n |-> 0]
         /\ request_timestamps = [l \in 1..n |-> <<>>]
         /\ input_token_usage = [l \in 1..n |-> <<>>]
         /\ output_token_usage = [l \in 1..n |-> <<>>]
         /\ rl_pc = [c \in 1..n |-> "idle"]
         /\ input_tokens = [c \in 1..n |-> 0]
         /\ sleep_left = [c \in 1..n |-> 0]
         /\ iterations = [c \in 1..n |-> 0]
         /\ queued_at_entry = [c \in 1..n |-> 0]
         /\ warned = [c \in 1..n |-> FALSE]

RateLimiterNext ==
    \/ \E c \in Callers : Generate(c)
    \/ \E c \in Callers : TakeLock(c)
    \/ \E c \in Callers : LoopIteration(c)
    \/ \E c \in Callers : WakeUp(c)
    \/ \E c \in Callers : RecordRequest(c)
    \/ \E c \in Callers : ApiCallRaises(c)
    \/ Tick

RateLimiterSpec == RateLimiterInit /\ [][RateLimiterNext]_vars

\* Time passes, and a caller that holds the lock runs: it is never blocked
\* inside the loop, and its sleep ends.
RateLimiterFairSpec ==
    /\ RateLimiterSpec
    /\ WF_vars(Tick)
    /\ \A c \in 1..MaxThreads : WF_vars(c \in Callers /\ (LoopIteration(c) \/ WakeUp(c)))

----------------------------------------------------------------------------
(* agent/searcher.py and agent/tool/internal_traverse.py: the Reader has   *)
(* requested a class that is a dependency of the focal component.  The     *)
(* text of a file is identified by the numbers of its lines.               *)

\* '\n'.join(lines[first - 1:last])
Source(first, last) == [text |-> "source", first |-> first, last |-> last]

\* _format_call_node: f"{call_name}(...)"
_format_call_node == [text |-> "ClassName(...)", first |-> 0, last |-> 0]

\* _find_class_init_in_node: the formatted call when the focal component's
\* node holds a call whose name is the class name, None otherwise
_find_class_init_in_node(has_call) == IF has_call THEN _format_call_node ELSE NoResult

\* _get_node_source: the lines of the file from node.lineno to the node's
\* end line (_get_end_line is node.end_lineno), at most to the end of the file
_get_node_source(lines, node) == Source(node.lineno, Min(node.end_lineno, lines))

\* _get_class_component: the call found in the focal component if there is
\* one, else the source of the ClassDef found in the class's file
_get_class_component(has_call, lines, node) ==
    LET local_class_info == _find_class_init_in_node(has_call)
    IN  IF local_class_info # NoResult THEN local_class_info
        ELSE _get_node_source(lines, node)

\* get_component_by_path for a path whose last part starts with an upper
\* case letter
get_component_by_path(has_call, lines, node) == _get_class_component(has_call, lines, node)

\* The classes a file of n lines can hold: the class is on the lines
\* lineno..end_lineno, and its __init__, if any, ends inside it after the header.
ClassNodes(n) ==
    {c \in [lineno : 1..n, end_lineno : 1..n, init_end_lineno : 0..n] :
        /\ c.lineno <= c.end_lineno
        /\ c.init_end_lineno # 0 =>
              (c.lineno < c.init_end_lineno /\ c.init_end_lineno <= c.end_lineno)}

SearcherInit ==
    /\ TopoIdle
    /\ NoOrchestrator
    /\ LlmIdle
    /\ file_lines \in 1..MaxLines
    /\ target_class \in ClassNodes(file_lines)
    /\ focal_calls \in BOOLEAN
    /\ class_result = NoResult
    /\ node_body = <<>>
    /\ original_body = <<>>
    /\ applied = <<>>

\* _gather_internal_info: the class is a dependency of the focal component
\* and is among the requested classes;
\* result['calls']['class'][requested_class] = class_code
GatherInternalInfo ==
    /\ target_class # NoClass
    /\ class_result = NoResult
    /\ class_result' = get_component_by_path(focal_calls, file_lines, target_class)
    /\ UNCHANGED <<file_lines, target_class, focal_calls, node_body, original_body, applied>>
    /\ UNCHANGED <<topoVars, orchOwnVars, llmVars>>

SearcherNext == GatherInternalInfo

SearcherSpec == SearcherInit /\ [][SearcherNext]_vars

----------------------------------------------------------------------------
(* generate_docstrings.py: set_node_docstring on the body of a node.       *)

\* An expression statement whose value is a string constant; prepared tells
\* the text that set_node_docstring builds (dedented, indented, between
\* newlines) from the text as it was written.
StrExpr(text, prepared) ==
    [node |-> "Expr", constant |-> "str", value |-> text, prepared |-> prepared]

\* The statements of a body: a docstring, an expression statement that is
\* not a string, an assignment and a return.
Statements ==
    {StrExpr("old docstring", FALSE),
     [node |-> "Expr", constant |-> "int", value |-> "1", prepared |-> FALSE],
     [node |-> "Assign", constant |-> "none", value |-> "x = 1", prepared |-> FALSE],
     [node |-> "Return", constant |-> "none", value |-> "return x", prepared |-> FALSE]}

RECURSIVE SeqsUpTo(_, _)
\* the sequences of at most k elements of S
SeqsUpTo(S, k) ==
    IF k = 0 THEN {<<>>}
    ELSE LET shorter == SeqsUpTo(S, k - 1)
         IN  shorter \cup {Append(q, x) : q \in shorter, x \in S}

\* The docstring arguments: empty, only a newline, a text, and a text
\* between newlines.
DocstringArgs == {"", "\n", "doc_a", "\ndoc_b\n"}

\* docstring.strip('\n')
StripNewlines(d) == CASE d = "\n" -> "" [] d = "\ndoc_b\n" -> "doc_b" [] OTHER -> d

\* docstring_node: the statement built from the argument, the placeholder
\* for an argument that is empty after the strip
docstring_node(d) ==
    LET stripped_docstring == StripNewlines(d)
    IN  StrExpr(IF stripped_docstring = "" THEN "No docstring provided."
                ELSE stripped_docstring, TRUE)

\* as IsStringLiteral, for any expression statement
IsExpression(stmt) == stmt.node = "Expr"

\* "isinstance(first_stmt, ast.Expr) and isinstance(first_stmt.value,
\* ast.Constant) and isinstance(first_stmt.value.value, str)"
IsStringLiteral(stmt) == stmt.node = "Expr" /\ stmt.constant = "str"

\* node.body after set_node_docstring(node, d)
NodeBodyAfter(body, d) ==
    IF body = <<>> THEN <<docstring_node(d)>>
    ELSE IF IsStringLiteral(Head(body))
         THEN <<docstring_node(d)>> \o Tail(body)
         ELSE <<docstring_node(d)>> \o body

SetNodeDocstringInit ==
    /\ TopoIdle
    /\ NoOrchestrator
    /\ LlmIdle
    /\ file_lines = 0
    /\ target_class = NoClass
    /\ focal_calls = FALSE
    /\ class_result = NoResult
    /\ node_body \in SeqsUpTo(Statements, MaxStatements)
    /\ original_body = node_body
    /\ applied = <<>>

\* set_node_docstring(node, d) is called on the node
SetNodeDocstring ==
    /\ target_class = NoClass
    /\ Len(applied) < MaxApplications
    /\ \E d \in DocstringArgs :
         /\ node_body' = NodeBodyAfter(node_body, d)
         /\ applied' = Append(applied, d)
    /\ UNCHANGED <<file_lines, target_class, focal_calls, class_result, original_body>>
    /\ UNCHANGED <<topoVars, orchOwnVars, llmVars>>

SetNodeDocstringNext == SetNodeDocstring

SetNodeDocstringSpec == SetNodeDocstringInit /\ [][SetNodeDocstringNext]_vars

----------------------------------------------------------------------------
(* Properties of the processing order.                                     *)

\* dependency_first_dfs has returned
Sorted == phase \in {"sorted", "loop", "end", "crashed"}

\* a occurs earlier than b in the sequence s
Before(s, a, b) == \E i, j \in DOMAIN s : s[i] = a /\ s[j] = b /\ i < j

RECURSIVE ReachableFrom(_, _)
\* the nodes that the nodes of S reach along the edges of g, S included
ReachableFrom(g, S) ==
    LET next == S \cup UNION {g[x] : x \in S \cap DOMAIN g}
    IN  IF next = S THEN S ELSE ReachableFrom(g, next)

HasCycle(g) == \E x \in DOMAIN g : x \in ReachableFrom(g, g[x])

\* the edges of graph that resolve_cycles removed
Removed(x, y) == y \in graph[x] /\ y \notin acyclic_graph[x]

\* C1: for every edge x -> y that is still present after resolve_cycles, y
\* appears earlier than x in the order dependency_first_dfs returns.
C1_Original ==
    Sorted => \A x \in Ids : \A y \in acyclic_graph[x] : Before(sorted_components, y, x)

\* C2: the graph returned by resolve_cycles contains no directed cycle,
\* whatever the strongly connected components of the input are, self-edges
\* included.
C2_Original == Sorted => ~HasCycle(acyclic_graph)

\* C3: for every strongly connected component of more than one node that
\* detect_cycles reports, resolve_cycles removes at least one edge between
\* two nodes of it; when the graph is two components that depend on each
\* other, exactly one of the two edges is removed.
C3_Original ==
    Sorted =>
        /\ \A i \in DOMAIN cycles :
              \E a, b \in Range(cycles[i]) : Removed(a, b)
        /\ \A p, q \in Ids :
              (Ids = {p, q} /\ p # q /\ q \in graph[p] /\ p \in graph[q])
                 => (Removed(p, q) # Removed(q, p))

\* C4: the list dependency_first_dfs returns contains every node of the
\* graph exactly once and nothing else, also for the empty graph, when
\* cycles remain after cycle breaking and when every node has an incoming
\* edge.
C4_EveryNodeOnce ==
    Sorted => /\ Len(sorted_components) = Cardinality(Ids)
              /\ Range(sorted_components) = Ids

\* C4 witness: cycles remain, no node is without an incoming edge, and the
\* traversal from the fallback root alone does not reach every node.
C4_Witness ==
    /\ Sorted
    /\ HasCycle(acyclic_graph)
    /\ \A x \in Ids : \E y \in Ids : x \in acyclic_graph[y]
    /\ Len(DfsSkipsRemaining(acyclic_graph, keys)) < Cardinality(Ids)
    /\ Range(sorted_components) = Ids

\* C5: in the topo order every method other than __init__ comes before its
\* class, also when the method refers to its own class, so that the
\* method -> class edge and the added class -> method edge form a cycle.
C5_MethodsBeforeClass ==
    Sorted => \A m \in Ids :
                 (kind[m] = "method" /\ m \notin initm)
                    => Before(sorted_components, m, Owner(m))

\* C5 witness: a method refers to its class, the two are reported as a
\* cycle, cycle breaking has cut an edge of it, and the method comes first.
C5_Witness ==
    /\ Sorted
    /\ \E m \in Ids :
          /\ kind[m] = "method" /\ m \notin initm
          /\ Owner(m) \in graph[m]
          /\ \E i \in DOMAIN cycles : {m, Owner(m)} \subseteq Range(cycles[i])
          /\ Removed(m, Owner(m))
          /\ Before(sorted_components, m, Owner(m))

\* C6: in topo order mode, for every edge x -> y that survives cycle
\* breaking, the main loop has finished y (docstring written, or skipped)
\* before it starts to process x.
C6_Original ==
    \A x \in Ids : status[x] = "processing" =>
        \A y \in acyclic_graph[x] : status[y] = "completed"

----------------------------------------------------------------------------
(* Properties of the main loop.                                            *)

\* The loop body is at component c's turn and has not started it.
AtTurnOf(c) == InLoop /\ Current = c /\ status[c] = "pending"

\* C13: a component that is an __init__ method, or whose record has a
\* docstring of more than 10 tokens while overwrite_docstrings is false, is
\* marked completed in one step, in which orchestrator.process is not called
\* and no file is written; it is never in the sets of orchestrated or
\* written components.
C13_SkippedUntouched ==
    [][ \A c \in Ids :
          ( /\ AtTurnOf(c)
            /\ \/ is_init_method(c)
               \/ /\ components[c].has_docstring
                  /\ components[c].docstring_length > 10
                  /\ ~overwrite_docstrings )
           => ( /\ status'[c] = "completed"
                /\ pos' = pos + 1
                /\ c \notin orchestrated' /\ c \notin written'
                /\ UNCHANGED <<on_disk, file_version, orchestrated, raised_in, written>> )
      ]_vars

\* C13 witness: in a run that calls the agents, a documented component of
\* 11 tokens was skipped after an earlier component was generated and
\* written by the agents.
C13_Witness ==
    /\ test_mode = "none"
    /\ \E c, e \in Ids :
          /\ c # e
          /\ status[c] = "completed"
          /\ c \notin orchestrated /\ c \notin written
          /\ ~is_init_method(c)
          /\ on_disk[c] = Documented(11)
          /\ e \in orchestrated /\ e \in written

\* C14: while a component is being processed, its record was parsed from
\* the version of its file that is on disk, whatever was written to that
\* file before.
C14_RecordOfCurrentFile ==
    \A c \in Ids :
        (phase \in {"loop", "crashed"} /\ status[c] = "processing")
           => components[c].version = file_version[file_path[c]]

\* C14 witness: a component is being processed whose file was written on
\* behalf of an earlier component, and its record is of that version.
C14_Witness ==
    \E c \in Ids :
        /\ phase = "loop"
        /\ status[c] = "processing"
        /\ file_version[file_path[c]] > 0
        /\ components[c].version = file_version[file_path[c]]
        /\ \E e \in written : file_path[e] = file_path[c]

\* The step ends the writeback of c without having written the file.
WritebackFails(c) ==
    /\ InLoop /\ Current = c /\ status[c] = "processing"
    /\ (phase' # phase \/ pos' # pos)
    /\ c \notin written'

C20_Original ==
    (Ids = {}) => ( /\ phase # "crashed"
                    /\ sorted_components = <<>>
                    /\ orchestrated = {} /\ written = {} )

----------------------------------------------------------------------------
(* Properties of Orchestrator.process.                                     *)

CallBounds ==
    /\ calls["searcher"] <= max_reader_search_attempts
    /\ calls["writer"] <= max_verifier_rejections + 1
    /\ calls["verifier"] <= max_verifier_rejections + 1
    /\ calls["reader"] <= max_reader_search_attempts + max_verifier_rejections + 1

\* C7: in every state of process(), reader_search_attempts is at most
\* max_reader_search_attempts and verifier_rejection_count is at most
\* max_verifier_rejections, for every sequence of agent responses.
C7_CountersBounded ==
    /\ reader_search_attempts <= max_reader_search_attempts
    /\ verifier_rejection_count <= max_verifier_rejections

\* C7 witness: both counters are at their maximum when the Verifier rejects
\* once more.
C7_Witness ==
    /\ reader_search_attempts = max_reader_search_attempts
    /\ verifier_rejection_count = max_verifier_rejections
    /\ verification_response # NoResponse
    /\ BlockIsTrue(verification_response.NEED_REVISION)

\* C8: process() ends after finitely many steps, and returns unless a call
\* on an agent raises; the Searcher is called at most
\* max_reader_search_attempts times, the Writer and the Verifier at most
\* max_verifier_rejections + 1 times each, and the Reader at most
\* max_reader_search_attempts + max_verifier_rejections + 1 times.
C8_TerminatesWithinCallBounds ==
    /\ [](CallBounds)
    /\ <>(opc \in {"returned", "raised"})

\* C8 witness: process() has returned after the largest number of calls on
\* every agent.
C8_Witness ==
    /\ opc = "returned"
    /\ calls["searcher"] = max_reader_search_attempts
    /\ calls["writer"] = max_verifier_rejections + 1
    /\ calls["verifier"] = max_verifier_rejections + 1
    /\ calls["reader"] = max_reader_search_attempts + max_verifier_rejections + 1

\* C9: process() returns exactly when the Verifier response that has just
\* arrived does not ask for a revision or the rejection counter had already
\* reached max_verifier_rejections, and it returns the docstring of the most
\* recent Writer call.
C9_ReturnsExactlyOnAcceptOrGiveUp ==
    [][ /\ (opc = "verify" /\ opc' # "raised")
            => ((opc' = "returned")
                  <=> (\/ ~BlockIsTrue(verification_response'.NEED_REVISION)
                       \/ verifier_rejection_count >= max_verifier_rejections))
        /\ (opc # "returned" /\ opc' = "returned")
            => (opc = "verify" /\ returned' = last_writer_output)
      ]_vars

\* C9 witness: the Verifier asked for a revision with the counter at its
\* maximum, and process() returned the latest docstring.
C9_Witness ==
    /\ opc = "returned"
    /\ BlockIsTrue(verification_response.NEED_REVISION)
    /\ verifier_rejection_count = max_verifier_rejections
    /\ calls["writer"] = max_verifier_rejections + 1
    /\ returned = last_writer_output

\* C10: when the Verifier asks for a revision and for more context while
\* both counters are below their maximum, verifier_rejection_count grows by
\* one, reader_search_attempts is unchanged, the Writer's and the Verifier's
\* memory are emptied, the context suggestion is appended to the Reader's
\* memory and the Reader is called next; reader_search_attempts grows only
\* on a Reader response whose INFO_NEED is true.
C10_HandBackToReader ==
    [][ /\ ( /\ opc = "verify" /\ opc' # "raised"
             /\ BlockIsTrue(verification_response'.NEED_REVISION)
             /\ BlockIsTrue(verification_response'.MORE_CONTEXT)
             /\ verifier_rejection_count < max_verifier_rejections
             /\ reader_search_attempts < max_reader_search_attempts )
            => ( /\ verifier_rejection_count' = verifier_rejection_count + 1
                 /\ reader_search_attempts' = reader_search_attempts
                 /\ writer_memory' = <<>>
                 /\ verifier_memory' = <<>>
                 /\ reader_memory' =
                       Append(reader_memory,
                              Message("user", "additional_context_needed",
                                      TagText(verification_response'.SUGGESTION_CONTEXT)))
                 /\ opc' = "read" )
        /\ (reader_search_attempts' # reader_search_attempts)
            => ( /\ opc = "read"
                 /\ reader_search_attempts' = reader_search_attempts + 1
                 /\ BlockIsTrue(reader_response'.INFO_NEED) )
      ]_vars

\* C10 witness: the Orchestrator has just handed back to the Reader after
\* such a verdict, with searches made before it.
C10_Witness ==
    /\ opc = "read"
    /\ verification_response # NoResponse
    /\ BlockIsTrue(verification_response.NEED_REVISION)
    /\ BlockIsTrue(verification_response.MORE_CONTEXT)
    /\ verification_response.SUGGESTION_CONTEXT # "absent"
    /\ writer_memory = <<>>
    /\ verifier_memory = <<>>
    /\ reader_search_attempts > 0
    /\ reader_search_attempts < max_reader_search_attempts

\* C11: when the Verifier asks for a revision while verifier_rejection_count
\* is below its maximum, and either it does not ask for more context or
\* reader_search_attempts has reached its maximum, the counter grows by one,
\* the Verifier's memory is emptied, the Verifier's suggestion is appended to
\* the Writer's memory after the Writer's earlier messages, and the Writer is
\* called next.
C11_Original ==
    [][ ( /\ opc = "verify" /\ opc' # "raised"
          /\ BlockIsTrue(verification_response'.NEED_REVISION)
          /\ verifier_rejection_count < max_verifier_rejections
          /\ \/ ~BlockIsTrue(verification_response'.MORE_CONTEXT)
             \/ reader_search_attempts >= max_reader_search_attempts )
         => ( /\ verifier_rejection_count' = verifier_rejection_count + 1
              /\ verifier_memory' = <<>>
              /\ writer_memory' =
                    Append(writer_memory,
                           Message("user", "please_improve",
                                   TagText(verification_response'.SUGGESTION)))
              /\ opc' = "write" )
      ]_vars

\* C12: when process() has returned on an accepting Verifier response, the
\* Reader never asked for information and the Verifier asked k times for a
\* revision, never with more context, the Writer and the Verifier have been
\* called k + 1 times each, the Reader once and the Searcher never, and k is
\* at most max_verifier_rejections.
C12_CallsPerRejection ==
    ( /\ opc = "returned"
      /\ ~BlockIsTrue(verification_response.NEED_REVISION)
      /\ response_log.info_need = 0
      /\ response_log.revise_context = 0 )
     => ( /\ calls["writer"] = response_log.revise + 1
          /\ calls["verifier"] = response_log.revise + 1
          /\ calls["reader"] = 1
          /\ calls["searcher"] = 0
          /\ response_log.revise <= max_verifier_rejections )

\* C12 witness: two rejections without a need of context, then an
\* acceptance: three Writer calls.
C12_Witness ==
    /\ opc = "returned"
    /\ ~BlockIsTrue(verification_response.NEED_REVISION)
    /\ response_log = [info_need |-> 0, revise |-> 2, revise_context |-> 0]
    /\ calls["writer"] = 3
    /\ calls["verifier"] = 3

\* The claim of C15 about one merge: the context after the step is the
\* merged context m if that fits the budget, and otherwise m with a section
\* that holds the most tokens of all sections cut by the excess, or emptied.
TruncatesLargestSection(before, after) ==
    \E search_results \in searchable :
       LET m == MergeResults(before, search_results)
           excess == TokensOf(m) + token_consume_focal - max_input_tokens
       IN  IF excess <= 0
           THEN after = m
           ELSE \E t \in SectionTags :
                   /\ \A u \in SectionTags : m[u] <= m[t]
                   /\ after = [m EXCEPT ![t] = IF excess >= m[t] THEN 0 ELSE m[t] - excess]

\* C15: after a merge that makes context plus focal component exceed
\* max_input_tokens, the section that is truncated is one that holds the
\* most tokens among all sections of the context, and it loses exactly the
\* excess from its tail, or all its content when the excess is at least its
\* size.
C15_Original ==
    [][ (opc = "search" /\ opc' = "read") => TruncatesLargestSection(context, context') ]_vars

\* C16: whenever the Reader is about to be called with the context, the
\* context contains every tag of the skeleton, also before the first search.
C16_Original == (opc = "read") => (SkeletonTags \subseteq DOMAIN context)

\* C16, amended: the context is the empty string from the start of
\* process() until the first search result is merged; a merge leaves every
\* tag of the skeleton in it, truncation included, and they stay until
\* process() ends.
C16_SkeletonAfterFirstMerge ==
    [][ /\ (opc = "idle") => (context' = EmptyString)
        /\ (opc # "idle" /\ opc # "search" /\ context = EmptyString)
              => (context' = EmptyString)
        /\ (opc = "search" /\ opc' = "read")
              => (SkeletonTags \subseteq DOMAIN context')
        /\ (opc # "idle" /\ SkeletonTags \subseteq DOMAIN context)
              => (SkeletonTags \subseteq DOMAIN context')
      ]_vars

\* C16 witness: the Reader is about to be called with a context whose
\* EXTERNAL_RETRIEVAL_INFO section was emptied by a truncation that could
\* not bring it under the budget; every tag is still there.
C16_Witness ==
    /\ opc = "read"
    /\ reader_search_attempts >= 2
    /\ SkeletonTags \subseteq DOMAIN context
    /\ context["EXTERNAL_RETRIEVAL_INFO"] = 0
    /\ context["CLASS"] > 0
    /\ TokensOf(context) + token_consume_focal > max_input_tokens

\* C17: a Reader response without an INFO_NEED block causes no Searcher
\* call and leaves reader_search_attempts unchanged; a Verifier response
\* without a NEED_REVISION block makes process() return the current
\* docstring; a Verifier response that asks for a revision and has no
\* MORE_CONTEXT block goes back to the Writer, not to the Reader.
C17_MissingBlocksAreFalse ==
    [][ /\ ( /\ opc = "read" /\ opc' # "raised"
             /\ reader_response'.INFO_NEED = "absent" )
            => ( /\ opc' = "write"
                 /\ reader_search_attempts' = reader_search_attempts
                 /\ calls'["searcher"] = calls["searcher"] )
        /\ ( /\ opc = "verify" /\ opc' # "raised"
             /\ verification_response'.NEED_REVISION = "absent" )
            => ( /\ opc' = "returned"
                 /\ returned' = docstring )
        /\ ( /\ opc = "verify" /\ opc' # "raised"
             /\ BlockIsTrue(verification_response'.NEED_REVISION)
             /\ verification_response'.MORE_CONTEXT = "absent"
             /\ verifier_rejection_count < max_verifier_rejections )
            => ( /\ opc' = "write"
                 /\ reader_memory' = reader_memory
                 /\ writer_memory' # <<>>
                 /\ reader_search_attempts' = reader_search_attempts )
      ]_vars

\* C17 witness: the Reader's response had no INFO_NEED block, so that no
\* search was made, and the Verifier has just asked for a revision in a
\* response without a MORE_CONTEXT block: the Writer is called next.
C17_Witness ==
    /\ opc = "write"
    /\ verification_response # NoResponse
    /\ BlockIsTrue(verification_response.NEED_REVISION)
    /\ verification_response.MORE_CONTEXT = "absent"
    /\ response_log.info_need = 0
    /\ calls["searcher"] = 0
    /\ calls["reader"] = 1

----------------------------------------------------------------------------
(* Properties of the dependency ordering, continued.                       *)

\* C21: for the same components and dependency edges, the graph that
\* resolve_cycles returns and the order that dependency_first_dfs returns
\* are the same whatever order the successor sets are iterated in: the run's
\* result is the result for every hash order of the same graph.
C21_Original ==
    Sorted => \A setOrd \in HashOrders(graph) :
                LET ag == resolve_cycles(graph, detect_cycles(graph, keys, setOrd))
                IN  /\ ag = acyclic_graph
                    /\ DfsOrder(ag, keys) = sorted_components

\* C24: for a dependency graph without cycles, topological_sort returns
\* every node exactly once, and for every edge x -> y (x depends on y) the
\* node y comes before x.
C24_Original ==
    (phase = "sorted" /\ ~HasCycle(graph))
       => /\ Len(sorted_components) = Cardinality(Ids)
          /\ Range(sorted_components) = Ids
          /\ \A x \in Ids : \A y \in graph[x] : Before(sorted_components, y, x)

\* C28: every LLM call of the Writer or of the Verifier is made with the
\* agent's system prompt among the messages of the conversation, which is
\* the agent's memory followed by the task: when the Writer (Verifier) is
\* about to be called, its memory holds its system prompt.
C28_Original ==
    /\ (opc = "write") => (SystemPrompt("writer") \in Range(writer_memory))
    /\ (opc = "verify") => (SystemPrompt("verifier") \in Range(verifier_memory))

\* C29: when orchestrator.process has raised for a component, the docstring
\* the component has in its file is left as it is.
C29_Original ==
    [][ \A c \in Ids :
          (c \in raised_in /\ on_disk[c].has_docstring) => (on_disk'[c] = on_disk[c])
      ]_vars

----------------------------------------------------------------------------
(* Properties of the rate limiting.                                        *)

\* C22: all callers whose LLM client targets the same provider use one
\* RateLimiter instance, so that a request recorded by one of them is in the
\* per-minute window the others are checked against.
C22_Original ==
    \A a, b \in Callers :
        provider[a] = provider[b]
           => /\ rate_limiter[a] = rate_limiter[b]
              /\ request_timestamps[rate_limiter[a]] = request_timestamps[rate_limiter[b]]

\* The caller is inside the loop of wait_if_needed, holding the lock.
InWaitLoop(c) == c \in Callers /\ rl_pc[c] \in {"loop", "sleep"}

\* wait_if_needed has returned and the request is being made.
Proceeds(c) == c \in Callers /\ rl_pc[c] = "request"

\* C23: wait_if_needed returns after finitely many iterations of its loop,
\* at most one more than there were entries in the queue when it took the
\* lock, and the request then proceeds; this includes a request above the
\* capacity of a minute, for which the warning was logged.
C23_WaitReturns ==
    /\ [](\A c \in Callers :
            /\ iterations[c] <= queued_at_entry[c] + 1
            /\ (rl_pc[c] \in {"loop", "sleep", "request"}
                  /\ AboveCapacity(input_tokens[c], max_output_tokens)) => warned[c])
    /\ \A c \in 1..MaxThreads : (InWaitLoop(c) ~> Proceeds(c))

\* C23 witness: a request above the capacity of a minute proceeds after the
\* caller has slept in wait_if_needed, and the warning was logged.
C23_Witness ==
    \E c \in Callers :
        /\ rl_pc[c] = "request"
        /\ AboveCapacity(input_tokens[c], max_output_tokens)
        /\ warned[c]
        /\ iterations[c] >= 2
        /\ lock[rate_limiter[c]] = 0

\* The requests recorded on limiter l within the last minute.
RecordedInWindow(l) ==
    Cardinality({i \in DOMAIN request_timestamps[l] : request_timestamps[l][i] < Minute})

\* C30: for threads that share one RateLimiter, the number of requests
\* recorded within a minute never exceeds the limiter's requests_per_minute.
C30_Original ==
    \A l \in DOMAIN request_timestamps :
        (\A c \in Callers : rate_limiter[c] = l)
           => RecordedInWindow(l) * 10 <= requests_per_minute

----------------------------------------------------------------------------
(* Properties of the tools.                                                *)

\* C25: the text the Searcher returns for a requested class that is a
\* dependency of the focal component is the class's source from its header
\* to the end of its __init__, or the whole class when it has no __init__,
\* whether or not the focal component instantiates the class.
C25_Original ==
    (class_result # NoResult)
       => class_result =
             Source(target_class.lineno,
                    IF target_class.init_end_lineno = 0 THEN target_class.end_lineno
                    ELSE target_class.init_end_lineno)

\* A body that begins with a docstring: its first statement is an
\* expression statement whose value is a string constant.
HasDocstring(body) ==
    body # <<>> /\ Head(body).node = "Expr" /\ Head(body).constant = "str"

\* The statements of a body that are not its docstring.
NonDocstring(body) == IF HasDocstring(body) THEN Tail(body) ELSE body

\* C26: after set_node_docstring the first statement of the body is the new
\* docstring and the statements that follow are the non-docstring statements
\* of the body as they were, in their order: a leading string literal is
\* replaced, otherwise exactly one statement is inserted; after two calls
\* the body is what the second call alone makes of the original body.
C26_DocstringFirstRestKept ==
    (applied # <<>>)
       => LET d == applied[Len(applied)] IN
          /\ Head(node_body) = docstring_node(d)
          /\ Tail(node_body) = NonDocstring(original_body)
          /\ Len(node_body) =
                IF HasDocstring(original_body)
                THEN Len(original_body) ELSE Len(original_body) + 1
          /\ node_body = NodeBodyAfter(original_body, d)

\* C26 witness: set_node_docstring was called twice with different
\* docstrings on a body that began with an expression statement that is not
\* a string, followed by another statement.
C26_Witness ==
    /\ Len(applied) = 2
    /\ applied[1] # applied[2]
    /\ Len(original_body) = 2
    /\ original_body[1].node = "Expr" /\ ~HasDocstring(original_body)
    /\ Len(node_body) = 3

----------------------------------------------------------------------------
(* Properties of a run over several components.                            *)

\* process() is entered for a component.
ProcessStarts == opc \in {"idle", "returned", "raised"} /\ opc' = "read"

\* C27: when the processing of a component starts, the memory of every agent
\* holds its own system prompt and nothing else: no task description, agent
\* response or verifier suggestion of an earlier component.
C27_Original ==
    [][ProcessStarts =>
          /\ reader_memory' = <<SystemPrompt("reader")>>
          /\ writer_memory' = <<SystemPrompt("writer")>>
          /\ verifier_memory' = <<SystemPrompt("verifier")>>]_vars

====
